---- MODULE Spec2Model ----
(***************************************************************************)
(* Model of files/serial_bridge.py: the serial-to-MQTT bridge.             *)
(*                                                                         *)
(* Text is modelled as a sequence of one-character strings, so that        *)
(* str.split() is computed rather than assumed.  A dict is a function      *)
(* from keys (texts) to values (texts).                                    *)
(*                                                                         *)
(* Line 59 is a `continue` inside parse_and_publish; it is modelled as     *)
(* what it stands for, abandoning the frame and going back to the read     *)
(* loop of main.                                                           *)
(***************************************************************************)
EXTENDS Integers, Sequences, FiniteSets, TLC

VARIABLES
    pc,            \* where main is: "readline", "parse", "publish", "dead"
    exc,           \* the exception that ended the process, "none" while it runs
    frames,        \* every line ser.readline() returned, in order
    data,          \* the dict parse_and_publish holds for the current frame
    decodeCalls,   \* frame numbers parse_message was called on, in call order
    skipLog,       \* frame numbers reported "Error reading message as JSON, skipping"
    publishCalls,  \* the calls made to publish.single, in call order
    completed,     \* frame numbers whose "Publish complete." was printed, in order
    inflight,      \* frame numbers with a publish.single call that has not returned
    serCloseCalls, \* how many times ser.close() ran
    shutdown,      \* an external termination signal was delivered
    pin,           \* parse_message under test: its argument
    pout           \* parse_message under test: its outcome, or NotCalled

vars == <<pc, exc, frames, data, decodeCalls, skipLog, publishCalls, completed,
          inflight, serCloseCalls, shutdown, pin, pout>>

mainVars == <<pc, exc, frames, data, decodeCalls, skipLog, publishCalls,
              completed, inflight, serCloseCalls, shutdown>>

(***************************************************************************)
(* Bounds                                                                  *)
(***************************************************************************)
MaxFrames == 3
MaxMsgLen == 5

(***************************************************************************)
(* Texts                                                                   *)
(***************************************************************************)
SP == " "
MSG == <<"m", "s", "g">>
SENDER_ID == <<"_", "s", "e", "n", "d", "e", "r", "_", "i", "d">>
TIMESTAMP == <<"_", "t", "i", "m", "e", "s", "t", "a", "m", "p">>
EmptyStr == <<>>
EmptyDict == [k \in {} |-> EmptyStr]

\* Byte values of the characters main and json.loads look at.
STAR_BYTE == 42
BRACE_BYTE == 123
BRACKET_BYTE == 91
X_BYTE == 120

\* d[key] = value
DictSet(d, key, value) ==
    [k \in (DOMAIN d) \cup {key} |-> IF k = key THEN value ELSE d[k]]

\* del d[key]
DictDel(d, key) == [k \in (DOMAIN d) \ {key} |-> d[k]]

\* message.split(): maximal runs of non-whitespace characters, in order.
RECURSIVE SplitLoop(_, _, _, _)
SplitLoop(s, i, cur, acc) ==
    IF i > Len(s)
    THEN IF cur = <<>> THEN acc ELSE Append(acc, cur)
    ELSE IF s[i] = SP
         THEN SplitLoop(s, i + 1, <<>>, IF cur = <<>> THEN acc ELSE Append(acc, cur))
         ELSE SplitLoop(s, i + 1, Append(cur, s[i]), acc)

Split(s) == SplitLoop(s, 1, <<>>, <<>>)

\* Faulty variant of Expand: an unpaired final token is dropped instead of stored.
RECURSIVE Expand_dropUnpaired(_, _)
Expand_dropUnpaired(d, elements) ==
    IF elements = <<>> THEN d
    ELSE IF Len(elements) = 1 THEN d
    ELSE Expand_dropUnpaired(DictSet(d, elements[1], elements[2]),
                             SubSeq(elements, 3, Len(elements)))

\* The while loop of parse_message: pop a key, pop a value if one is left,
\* else "", and store.
RECURSIVE Expand(_, _)
Expand(d, elements) ==
    IF elements = <<>> THEN d
    ELSE LET key == Head(elements)
             rest == Tail(elements)
         IN IF rest # <<>>
            THEN Expand(DictSet(d, key, Head(rest)), Tail(rest))
            ELSE Expand(DictSet(d, key, EmptyStr), rest)

(***************************************************************************)
(* A line off the serial port is bytes.  It is modelled by its first byte  *)
(* and by what json.loads makes of it: "invalid" (JSONDecodeError), a      *)
(* "list" (any JSON value that is not an object) or a "dict".              *)
(***************************************************************************)
Invalid == [kind |-> "invalid", d |-> EmptyDict]
JsonList == [kind |-> "list", d |-> EmptyDict]
JsonDict(d) == [kind |-> "dict", d |-> d]

Line(first, json) == [first |-> first, json |-> json]

\* json.loads(line)
JsonLoads(line) == line.json

\* Outcomes of parse_message: a returned dict or a raised exception.
Returned(d) == [exc |-> "none", data |-> d]
Raised(e) == [exc |-> e, data |-> EmptyDict]

parse_message(line) ==
    LET loaded == JsonLoads(line)
    IN IF loaded.kind = "invalid" THEN Raised("JSONDecodeError")
       ELSE IF loaded.kind = "list" THEN Raised("TypeError")
       ELSE IF MSG \notin DOMAIN loaded.d THEN Raised("KeyError")
       ELSE Returned(Expand(DictDel(loaded.d, MSG), Split(loaded.d[MSG])))

(***************************************************************************)
(* Python values, as far as `line[0] == "*"` needs them: indexing bytes    *)
(* gives an int, and == between values of different types is False.        *)
(***************************************************************************)
PyInt(n) == [type |-> "int", val |-> n]
PyStr(s) == [type |-> "str", val |-> s]
PyEq(a, b) == a.type = b.type /\ a.val = b.val

\* line[0], line being the bytes ser.readline() returned
BytesIndex0(line) == PyInt(line.first)

\* if line[0] == "*": continue
IsDiagnostic(line) == PyEq(BytesIndex0(line), PyStr("*"))

\* Faulty variant of Caught: the except clause catches nothing.
Caught_nothing(e) == e # e

\* except json.JSONDecodeError
Caught(e) == e = "JSONDecodeError"

\* datetime.now(timezone.utc).timestamp() as json.dumps writes it; the
\* clock is abstracted to one tick per line read.
DigitChars == <<"0", "1", "2", "3", "4", "5", "6", "7", "8", "9">>
TimestampValue(n) == <<DigitChars[(n % 10) + 1]>>

\* "home/radio/client{}".format(data['_sender_id'])
Topic(d) == [prefix |-> "home/radio/client", id |-> d[SENDER_ID]]

\* Faulty variant of PublishSingle: the message is sent twice.
PublishSingle_twice(calls, n, topic, payload) ==
    Append(Append(calls, [frame |-> n, topic |-> topic, payload |-> payload]),
           [frame |-> n, topic |-> topic, payload |-> payload])

\* publish.single(mqtt_topic, json_data, ...): one message to the broker
PublishSingle(calls, n, topic, payload) ==
    Append(calls, [frame |-> n, topic |-> topic, payload |-> payload])

\* Faulty variant of PcAfterPublishCall: the publish call returns at once and the
\* send goes on in the background.
PcAfterPublishCall_async == "readline"

\* publish.single is synchronous: main stays inside it until the message
\* is sent or the call raises.
PcAfterPublishCall == "publish"

(***************************************************************************)
(* Inputs                                                                  *)
(***************************************************************************)
Alphabet == {"a", "b", SP}
Texts(n) == UNION {[1..k -> Alphabet] : k \in 0..n}

KA == <<"a">>
KB == <<"b">>
VX == <<"x">>
VY == <<"y">>
V7 == <<"7">>

StructRecords ==
    { EmptyDict,
      KA :> VX,
      (KA :> VX) @@ (KB :> VY),
      SENDER_ID :> V7 }

SpecialMsgs ==
    { MSG \o <<SP, "a">>,
      SENDER_ID \o <<SP, "b">>,
      <<"a", SP, "b", SP, "a", SP, "a">> }

\* Arguments parse_message is applied to on its own.
ParseInputs ==
    { Line(BRACE_BYTE, JsonDict(DictSet(d, MSG, m))) :
          d \in StructRecords, m \in Texts(MaxMsgLen) \cup SpecialMsgs }
    \cup { Line(BRACE_BYTE, JsonDict(d)) : d \in StructRecords }

\* Lines the serial device delivers to the main loop.
DiagLine == Line(STAR_BYTE, Invalid)
GarbageLine == Line(X_BYTE, Invalid)
ListLine == Line(BRACKET_BYTE, JsonList)
GoodLine == Line(BRACE_BYTE, JsonDict((SENDER_ID :> V7) @@ (MSG :> <<"a", SP, "b">>)))
OddLine == Line(BRACE_BYTE, JsonDict((SENDER_ID :> V7) @@ (MSG :> <<"a">>)))
SenderInMsgLine == Line(BRACE_BYTE, JsonDict(MSG :> (SENDER_ID \o <<SP, "b">>)))
NoMsgLine == Line(BRACE_BYTE, JsonDict(SENDER_ID :> V7))
NoSenderLine == Line(BRACE_BYTE, JsonDict(MSG :> <<"a", SP, "b">>))

Lines == { DiagLine, GarbageLine, ListLine, GoodLine, OddLine,
           SenderInMsgLine, NoMsgLine, NoSenderLine }

NotCalled == [exc |-> "pending", data |-> EmptyDict]

(***************************************************************************)
(* main                                                                    *)
(***************************************************************************)
MainInit ==
    /\ pc = "readline"
    /\ exc = "none"
    /\ frames = <<>>
    /\ data = EmptyDict
    /\ decodeCalls = <<>>
    /\ skipLog = <<>>
    /\ publishCalls = <<>>
    /\ completed = <<>>
    /\ inflight = {}
    /\ serCloseCalls = 0
    /\ shutdown = FALSE

Init ==
    /\ MainInit
    /\ pin = GoodLine
    /\ pout = NotCalled

\* line = ser.readline(); if line[0] == "*": continue
ReadLine ==
    /\ pc = "readline"
    /\ Len(frames) < MaxFrames
    /\ \E line \in Lines :
          /\ frames' = Append(frames, line)
          /\ pc' = IF IsDiagnostic(line) THEN "readline" ELSE "parse"
    /\ UNCHANGED <<exc, data, decodeCalls, skipLog, publishCalls, completed,
                   inflight, serCloseCalls, shutdown, pin, pout>>

\* ser.readline() raises (device unplugged); nothing in main catches it.
ReadError ==
    /\ pc = "readline"
    /\ pc' = "dead"
    /\ exc' = "SerialException"
    /\ UNCHANGED <<frames, data, decodeCalls, skipLog, publishCalls, completed,
                   inflight, serCloseCalls, shutdown, pin, pout>>

\* parse_and_publish up to and including the call of publish.single
ParseAndPublish ==
    /\ pc = "parse"
    /\ LET n == Len(frames)
           res == parse_message(frames[n])
           stamped == DictSet(res.data, TIMESTAMP, TimestampValue(n))
       IN /\ decodeCalls' = Append(decodeCalls, n)
          /\ IF res.exc = "none"
             THEN /\ data' = stamped
                  /\ skipLog' = skipLog
                  /\ IF SENDER_ID \in DOMAIN stamped
                     THEN /\ publishCalls' =
                                PublishSingle(publishCalls, n, Topic(stamped), stamped)
                          /\ inflight' = inflight \cup {n}
                          /\ pc' = PcAfterPublishCall
                          /\ exc' = exc
                     ELSE /\ pc' = "dead"
                          /\ exc' = "KeyError"
                          /\ UNCHANGED <<publishCalls, inflight>>
             ELSE IF Caught(res.exc)
             THEN /\ skipLog' = Append(skipLog, n)
                  /\ pc' = "readline"
                  /\ UNCHANGED <<exc, data, publishCalls, inflight>>
             ELSE /\ pc' = "dead"
                  /\ exc' = res.exc
                  /\ UNCHANGED <<data, skipLog, publishCalls, inflight>>
    /\ UNCHANGED <<frames, completed, serCloseCalls, shutdown, pin, pout>>

\* publish.single returns; print("Publish complete.")
PublishReturn ==
    /\ pc = "publish"
    /\ inflight' = inflight \ {Len(frames)}
    /\ completed' = Append(completed, Len(frames))
    /\ pc' = "readline"
    /\ UNCHANGED <<exc, frames, data, decodeCalls, skipLog, publishCalls,
                   serCloseCalls, shutdown, pin, pout>>

\* publish.single raises (broker unreachable, refused, timed out); nothing
\* in parse_and_publish or main catches it.
PublishRaise ==
    /\ pc = "publish"
    /\ inflight' = inflight \ {Len(frames)}
    /\ pc' = "dead"
    /\ exc' = "PublishError"
    /\ UNCHANGED <<frames, data, decodeCalls, skipLog, publishCalls, completed,
                   serCloseCalls, shutdown, pin, pout>>

\* An external termination signal.  main installs no handler and has no
\* try/finally: the while(1) loop is left by the exception, and the
\* ser.close() after the loop is not run.
Interrupt ==
    /\ pc # "dead"
    /\ shutdown' = TRUE
    /\ pc' = "dead"
    /\ exc' = "KeyboardInterrupt"
    /\ inflight' = {}
    /\ UNCHANGED <<frames, data, decodeCalls, skipLog, publishCalls, completed,
                   serCloseCalls, pin, pout>>

Next ==
    \/ ReadLine
    \/ ReadError
    \/ ParseAndPublish
    \/ PublishReturn
    \/ PublishRaise
    \/ Interrupt

Spec == Init /\ [][Next]_vars

(***************************************************************************)
(* parse_message on its own, over ParseInputs                              *)
(***************************************************************************)
InitParse ==
    /\ MainInit
    /\ pin \in ParseInputs
    /\ pout = NotCalled

ParseCall ==
    /\ pout = NotCalled
    /\ pout' = parse_message(pin)
    /\ UNCHANGED <<mainVars, pin>>

NextParse == ParseCall

SpecParse == InitParse /\ [][NextParse]_vars

(***************************************************************************)
(* Vocabulary of the properties                                            *)
(***************************************************************************)
FrameNums == 1..Len(frames)

PublishCount(i) ==
    Cardinality({k \in 1..Len(publishCalls) : publishCalls[k].frame = i})

DecodeCount(i) ==
    Cardinality({k \in 1..Len(decodeCalls) : decodeCalls[k] = i})

InSeq(x, seq) == \E k \in 1..Len(seq) : seq[k] = x

\* The loop iteration of frame i is over and main went back to readline.
Done(i) == i < Len(frames) \/ (i = Len(frames) /\ pc = "readline")

\* main is inside publish.single for frame i.
Publishing(i) == i = Len(frames) /\ pc = "publish"

\* The process was ended by an exception raised while handling frame i.
AbortedBy(i) ==
    /\ pc = "dead"
    /\ i = Len(frames)
    /\ exc \in {"JSONDecodeError", "TypeError", "KeyError", "PublishError"}

StartsWithStar(line) == line.first = STAR_BYTE
Unparseable(line) == line.json.kind = "invalid"
IsRecord(line) == line.json.kind = "dict"
HasMsg(line) == IsRecord(line) /\ MSG \in DOMAIN line.json.d

\* The pairs of the whitespace-split msg value, by position.
NPairs(toks) == (Len(toks) + 1) \div 2
PairKey(toks, j) == toks[2 * j - 1]
PairVal(toks, j) == IF 2 * j <= Len(toks) THEN toks[2 * j] ELSE EmptyStr
PairKeys(toks) == {PairKey(toks, j) : j \in 1..NPairs(toks)}
LastPair(toks, k) ==
    CHOOSE j \in 1..NPairs(toks) :
        /\ PairKey(toks, j) = k
        /\ \A j2 \in 1..NPairs(toks) : PairKey(toks, j2) = k => j2 <= j

\* '_sender_id' is a field of the record or a key of the msg expansion.
HasSender(line) ==
    /\ HasMsg(line)
    /\ \/ SENDER_ID \in DOMAIN line.json.d
       \/ SENDER_ID \in PairKeys(Split(line.json.d[MSG]))

Eligible(line) == ~StartsWithStar(line) /\ HasMsg(line) /\ HasSender(line)

(***************************************************************************)
(* C1: a frame whose first character is '*' causes no call of              *)
(* parse_message and no publish call.                                      *)
(***************************************************************************)
C1_DiagnosticNeverDecoded ==
    \A i \in FrameNums :
        StartsWithStar(frames[i]) => DecodeCount(i) = 0 /\ PublishCount(i) = 0

C3_ParseMessageOverlay ==
    (pout # NotCalled /\ HasMsg(pin)) =>
        LET rec == pin.json.d
            toks == Split(rec[MSG])
            base == (DOMAIN rec) \ {MSG}
            r == pout.data
        IN /\ pout.exc = "none"
           /\ DOMAIN r = base \cup PairKeys(toks)
           /\ \A k \in DOMAIN r :
                  r[k] = IF k \in PairKeys(toks)
                         THEN PairVal(toks, LastPair(toks, k))
                         ELSE rec[k]
           /\ (/\ Len(toks) % 2 = 0
               /\ Cardinality(PairKeys(toks)) = NPairs(toks)
               /\ PairKeys(toks) \cap base = {}
               => Cardinality(DOMAIN r)
                      = (Cardinality(DOMAIN rec) - 1) + (Len(toks) \div 2))

\* Three tokens: the first pair overwrites a structured field, the last
\* token is unpaired.
C3_Witness ==
    /\ pout # NotCalled
    /\ HasMsg(pin)
    /\ pin.json.d = DictSet((KA :> VX) @@ (KB :> VY), MSG, <<"b", SP, "a", SP, "a">>)
    /\ pout.data = (KA :> EmptyStr) @@ (KB :> <<"a">>)

(***************************************************************************)
(* C4: a frame that parses as a record without 'msg' is dropped without a  *)
(* publish call and never aborts the read loop.                            *)
(***************************************************************************)
C4_MissingMsgDropped ==
    \A i \in FrameNums :
        (IsRecord(frames[i]) /\ ~HasMsg(frames[i])) =>
            PublishCount(i) = 0 /\ ~AbortedBy(i)

(***************************************************************************)
(* C5: a decoded event without '_sender_id' after the merge causes no      *)
(* publish call and does not terminate the pipeline.                       *)
(***************************************************************************)
C5_MissingSenderDropped ==
    \A i \in FrameNums :
        (HasMsg(frames[i]) /\ ~HasSender(frames[i])) =>
            PublishCount(i) = 0 /\ ~AbortedBy(i)

(***************************************************************************)
(* C6: events are published in the order their frames were decoded, and    *)
(* no two publishes are in flight at the same time: a publish call is      *)
(* made only when every earlier one has completed.                         *)
(***************************************************************************)
DecodePos(i) == CHOOSE k \in 1..Len(decodeCalls) : decodeCalls[k] = i

C6_PublishInDecodeOrder ==
    /\ Cardinality(inflight) <= 1
    /\ \A k \in 1..Len(publishCalls) : InSeq(publishCalls[k].frame, decodeCalls)
    /\ \A k, l \in 1..Len(publishCalls) :
           k < l =>
               /\ DecodePos(publishCalls[k].frame) < DecodePos(publishCalls[l].frame)
               /\ InSeq(publishCalls[k].frame, completed)
    /\ \A k, l \in 1..Len(completed) :
           k < l => DecodePos(completed[k]) < DecodePos(completed[l])

C6_Witness ==
    /\ Len(completed) = 2
    /\ Len(publishCalls) = 3
    /\ inflight = {3}

(***************************************************************************)
(* C7: a transient publish failure does not end the pipeline: the event    *)
(* is delivered by a retry, or it is dropped and the pipeline goes on to   *)
(* the next event.                                                         *)
(***************************************************************************)
C7_PublishFailureSurvived ==
    exc = "PublishError" => (InSeq(Len(frames), completed) \/ pc # "dead")

(***************************************************************************)
(* C8: while a publish for an earlier frame is pending, a further frame    *)
(* can be read.                                                            *)
(***************************************************************************)
C8_ReadWhilePublishPending ==
    (inflight # {} /\ Len(frames) < MaxFrames) => ENABLED ReadLine

(***************************************************************************)
(* C9: after an externally requested shutdown the process stops cleanly,   *)
(* with the serial handle released exactly once.                           *)
(***************************************************************************)
C9_ShutdownReleasesSerial ==
    (shutdown /\ pc = "dead") => (exc = "none" /\ serCloseCalls = 1)

(***************************************************************************)
(* C10: a frame that is non-diagnostic, parses as JSON and carries 'msg'   *)
(* and '_sender_id' gets exactly one publish call, which completes before  *)
(* the next frame is read; no frame is published twice, and every publish  *)
(* call is for the frame read last.                                        *)
(***************************************************************************)
C10_OnePublishPerFrame ==
    /\ \A i \in FrameNums : PublishCount(i) <= 1
    /\ \A k \in 1..Len(publishCalls) : publishCalls[k].frame \in FrameNums
    /\ \A i \in FrameNums :
           Eligible(frames[i]) =>
               /\ (Done(i) \/ Publishing(i) => PublishCount(i) = 1)
               /\ (i < Len(frames) => InSeq(i, completed))
    /\ inflight \subseteq {Len(frames)}
    /\ (inflight # {} => pc = "publish")

C10_Witness ==
    /\ Len(frames) = 2
    /\ Eligible(frames[1])
    /\ PublishCount(1) = 1
    /\ InSeq(1, completed)
    /\ pc = "parse"

====
